---- MODULE Spec2Model ----
(***************************************************************************)
(* sql-splitter (src/src/main.rs): one forward pass over a dump of SQL     *)
(* object definitions.  A line starting with "USE " and the line after it  *)
(* become the preamble; a recognized "/****** Object:" marker line opens a *)
(* new sink (a file, or an entry of a zip archive); every other line is    *)
(* written to the current sink.                                            *)
(*                                                                         *)
(* Strings are sequences of one-character strings, so that starts_with,    *)
(* ends_with, the regular expression of DatabaseObject::try_from and the   *)
(* path construction are computed as the code computes them.  The bytes of *)
(* an input line are identified by the position of the line in the input:  *)
(* a buffer or a sink holds a sequence of chunks [src, at], the text of a  *)
(* chunk being the text of input line `at`; src tells whether the chunk    *)
(* was written from `line` or replayed from `db_use_statement`.            *)
(***************************************************************************)
EXTENDS Integers, Sequences, FiniteSets, TLC

(***************************************************************************)
(* Bounds of the model.                                                    *)
(***************************************************************************)
\* the longest input, in lines
MaxLen == 4
\* capacity in bytes of a BufWriter (std's default is 8 KiB; the model's
\* lines are a few dozen bytes, so a few dozen bytes make the buffer fill)
BufCap == 40

(***************************************************************************)
(* Strings.                                                                *)
(***************************************************************************)
Whitespace == {" ", "\t", "\n", "\r"}

Letters ==
    {"a", "b", "c", "d", "e", "f", "g", "h", "i", "j", "k", "l", "m",
     "n", "o", "p", "q", "r", "s", "t", "u", "v", "w", "x", "y", "z",
     "A", "B", "C", "D", "E", "F", "G", "H", "I", "J", "K", "L", "M",
     "N", "O", "P", "Q", "R", "S", "T", "U", "V", "W", "X", "Y", "Z"}

Digits == {"0", "1", "2", "3", "4", "5", "6", "7", "8", "9"}

\* the class \w of the regex crate, restricted to ASCII
WordChars == Letters \cup Digits \cup {"_"}

starts_with(s, p) == Len(s) >= Len(p) /\ SubSeq(s, 1, Len(p)) = p

ends_with(s, p) == Len(s) >= Len(p) /\ SubSeq(s, Len(s) - Len(p) + 1, Len(s)) = p

Max(S) == CHOOSE x \in S : \A y \in S : y <= x

\* Option<T>: <<>> is None, <<x>> is Some(x)
None == <<>>

Some(x) == <<x>>

\* [a, b].join("/")
JoinSlash(a, b) == a \o <<"/">> \o b

(***************************************************************************)
(* ObjectType and its Display                                              *)
(***************************************************************************)
ObjectType ==
    {"Database", "DatabaseRole", "DdlTrigger", "Index", "Schema", "Sequence",
     "StoredProcedure", "Synonym", "Table", "Trigger", "User",
     "UserDefinedDataType", "UserDefinedFunction", "View"}

\* impl Display for ObjectType
ObjectTypeDisplay(t) ==
    CASE t = "Database"            -> <<"D", "a", "t", "a", "b", "a", "s", "e">>
      [] t = "DatabaseRole"        -> <<"D", "a", "t", "a", "b", "a", "s", "e", "R", "o", "l", "e">>
      [] t = "DdlTrigger"          -> <<"D", "d", "l", "T", "r", "i", "g", "g", "e", "r">>
      [] t = "Index"               -> <<"I", "n", "d", "e", "x">>
      [] t = "Schema"              -> <<"S", "c", "h", "e", "m", "a">>
      [] t = "Sequence"            -> <<"S", "e", "q", "u", "e", "n", "c", "e">>
      [] t = "StoredProcedure"     -> <<"S", "t", "o", "r", "e", "d", "P", "r", "o", "c", "e", "d", "u", "r", "e">>
      [] t = "Synonym"             -> <<"S", "y", "n", "o", "n", "y", "m">>
      [] t = "Table"               -> <<"T", "a", "b", "l", "e">>
      [] t = "Trigger"             -> <<"T", "r", "i", "g", "g", "e", "r">>
      [] t = "User"                -> <<"U", "s", "e", "r">>
      [] t = "UserDefinedDataType" -> <<"U", "s", "e", "r", "D", "e", "f", "i", "n", "e", "d", "D", "a", "t", "a", "T", "y", "p", "e">>
      [] t = "UserDefinedFunction" -> <<"U", "s", "e", "r", "D", "e", "f", "i", "n", "e", "d", "F", "u", "n", "c", "t", "i", "o", "n">>
      [] t = "View"                -> <<"V", "i", "e", "w">>

\* the match of try_from on the captured kind token: Some(variant) or None
MatchObjectType(cap) ==
    CASE cap = <<"D", "a", "t", "a", "b", "a", "s", "e">> -> Some("Database")
      [] cap = <<"D", "a", "t", "a", "b", "a", "s", "e", "R", "o", "l", "e">> -> Some("DatabaseRole")
      [] cap = <<"D", "d", "l", "T", "r", "i", "g", "g", "e", "r">> -> Some("DdlTrigger")
      [] cap = <<"I", "n", "d", "e", "x">> -> Some("Index")
      [] cap = <<"S", "c", "h", "e", "m", "a">> -> Some("Schema")
      [] cap = <<"S", "e", "q", "u", "e", "n", "c", "e">> -> Some("Sequence")
      [] cap = <<"S", "t", "o", "r", "e", "d", "P", "r", "o", "c", "e", "d", "u", "r", "e">> -> Some("StoredProcedure")
      [] cap = <<"S", "y", "n", "o", "n", "y", "m">> -> Some("Synonym")
      [] cap = <<"T", "a", "b", "l", "e">> -> Some("Table")
      [] cap = <<"T", "r", "i", "g", "g", "e", "r">> -> Some("Trigger")
      [] cap = <<"U", "s", "e", "r">> -> Some("User")
      [] cap = <<"U", "s", "e", "r", "D", "e", "f", "i", "n", "e", "d", "D", "a", "t", "a", "T", "y", "p", "e">> -> Some("UserDefinedDataType")
      [] cap = <<"U", "s", "e", "r", "D", "e", "f", "i", "n", "e", "d", "F", "u", "n", "c", "t", "i", "o", "n">> -> Some("UserDefinedFunction")
      [] cap = <<"V", "i", "e", "w">> -> Some("View")
      [] OTHER -> None

(***************************************************************************)
(* The regular expression of DatabaseObject::try_from,                     *)
(*   ^/\*+\s+Object:\s+(\w+)\s+\[(\S+)\]\.\[(\S+)\]                        *)
(* matched as the regex crate matches it (greedy, leftmost-first).         *)
(***************************************************************************)
\* the last index of the longest run of characters of class C that starts
\* at s[i]; i - 1 when s[i] is not of class C (an empty run)
RunEnd(s, i, C) ==
    Max({j \in (i - 1)..Len(s) : \A k \in i..j : s[k] \in C})

\* the characters of s that are not whitespace: the class \S on s
NonSpace(s) == {s[k] : k \in 1..Len(s)} \ Whitespace

\* s has the literal p at index i
LiteralAt(s, i, p) ==
    /\ i >= 1
    /\ i + Len(p) - 1 <= Len(s)
    /\ SubSeq(s, i, i + Len(p) - 1) = p

\* \[(\S+)\]\.\[(\S+)\] at index i of s: Some of [schema, name], or None.
\* Both groups lie in the run of non-whitespace that starts after the first
\* bracket; each \S+ is greedy, so the schema ends at the last "].[" after
\* which a name and a closing bracket still fit, and the name ends at the
\* last closing bracket of the run.
MatchBrackets(s, i) ==
    IF ~LiteralAt(s, i, <<"[">>) THEN None
    ELSE LET a == i + 1
             e == RunEnd(s, a, NonSpace(s))
             ends == {x \in a..e :
                         /\ LiteralAt(s, x + 1, <<"]", ".", "[">>)
                         /\ \E j \in (x + 5)..e : s[j] = "]"}
         IN IF ends = {} THEN None
            ELSE LET x == Max(ends)
                     j == Max({y \in (x + 5)..e : s[y] = "]"})
                 IN Some([schema |-> SubSeq(s, a, x),
                          name   |-> SubSeq(s, x + 4, j - 1)])

\* pattern.captures(s): Some of [kind, schema, name] (groups 1, 2, 3) or None.
\* Before the brackets no run can give a character back: the character that
\* has to follow each run is outside the class of the run.
Captures(s) ==
    IF ~LiteralAt(s, 1, <<"/">>) THEN None
    ELSE LET stars == RunEnd(s, 2, {"*"})
             ws1   == RunEnd(s, stars + 1, Whitespace)
             obj   == ws1 + 1
             ws2   == RunEnd(s, obj + 7, Whitespace)
             word  == RunEnd(s, ws2 + 1, WordChars)
             ws3   == RunEnd(s, word + 1, Whitespace)
         IN IF \/ stars < 2
               \/ ws1 < stars + 1
               \/ ~LiteralAt(s, obj, <<"O", "b", "j", "e", "c", "t", ":">>)
               \/ ws2 < obj + 7
               \/ word < ws2 + 1
               \/ ws3 < word + 1
            THEN None
            ELSE LET b == MatchBrackets(s, ws3 + 1)
                 IN IF b = None THEN None
                    ELSE Some([kind   |-> SubSeq(s, ws2 + 1, word),
                               schema |-> b[1].schema,
                               name   |-> b[1].name])

\* try_from, were groups 2 and 3 taken for the name and the schema
try_from_swapped(s) ==
    LET caps == Captures(s)
    IN IF caps = None THEN None
       ELSE LET object_type == MatchObjectType(caps[1].kind)
            IN IF object_type = None THEN None
               ELSE Some([object_type |-> object_type[1],
                          schema      |-> caps[1].name,
                          name        |-> caps[1].schema])

\* DatabaseObject::try_from: Some(DatabaseObject) for Ok, None for Err(())
try_from(s) ==
    LET caps == Captures(s)
    IN IF caps = None THEN None
       ELSE LET object_type == MatchObjectType(caps[1].kind)
            IN IF object_type = None THEN None
               ELSE Some([object_type |-> object_type[1],
                          schema      |-> caps[1].schema,
                          name        |-> caps[1].name])

(***************************************************************************)
(* Paths (std::path::Path on strings without a directory part)             *)
(***************************************************************************)
\* the index of the last "." of s that splits a stem from an extension, or 0
\* (a leading "." starts a hidden file name, not an extension)
ExtensionDot(s) ==
    LET dots == {i \in 2..Len(s) : s[i] = "."}
    IN IF dots = {} THEN 0 ELSE Max(dots)

\* Path::file_stem
file_stem(s) ==
    IF ExtensionDot(s) = 0 THEN s ELSE SubSeq(s, 1, ExtensionDot(s) - 1)

\* Path::with_extension: the extension is replaced when there is one
with_extension(s, ext) == file_stem(s) \o <<".">> \o ext

(***************************************************************************)
(* The input: lines drawn from a catalogue                                 *)
(***************************************************************************)
Catalogue ==
    << \* 1: a context switch
       <<"U", "S", "E", " ", "d", "\n">>,
       \* 2: an ordinary line
       <<"G", "O", "\n">>,
       \* 3: the marker of View [s].[a]
       <<"/", "*", "*", "*", "*", "*", "*", " ", "O", "b", "j", "e", "c", "t", ":", " ", " ",
         "V", "i", "e", "w", " ", "[", "s", "]", ".", "[", "a", "]", " ",
         "*", "*", "*", "*", "*", "*", "/", "\n">>,
       \* 4: the marker of Table [s].[b]
       <<"/", "*", "*", "*", "*", "*", "*", " ", "O", "b", "j", "e", "c", "t", ":", " ", " ",
         "T", "a", "b", "l", "e", " ", "[", "s", "]", ".", "[", "b", "]", " ",
         "*", "*", "*", "*", "*", "*", "/", "\n">>,
       \* 5: the marker prefix with a kind that is no ObjectType (a case variant)
       <<"/", "*", "*", "*", "*", "*", "*", " ", "O", "b", "j", "e", "c", "t", ":", " ", " ",
         "v", "i", "e", "w", " ", "[", "s", "]", ".", "[", "a", "]", " ",
         "*", "*", "*", "*", "*", "*", "/", "\n">>,
       \* 6: the marker prefix with a name and no schema
       <<"/", "*", "*", "*", "*", "*", "*", " ", "O", "b", "j", "e", "c", "t", ":", " ", " ",
         "V", "i", "e", "w", " ", "[", "a", "]", " ",
         "*", "*", "*", "*", "*", "*", "/", "\n">>,
       \* 7: a marker whose brackets hold "].[" twice: View [a].[b].[c]
       <<"/", "*", "*", "*", "*", "*", "*", " ", "O", "b", "j", "e", "c", "t", ":", " ", " ",
         "V", "i", "e", "w", " ", "[", "a", "]", ".", "[", "b", "]", ".", "[", "c", "]", " ",
         "*", "*", "*", "*", "*", "*", "/", "\n">> >>

LineIds == 1..Len(Catalogue)

UsePrefix == <<"U", "S", "E", " ">>

ObjectPrefix == <<"/", "*", "*", "*", "*", "*", "*", " ", "O", "b", "j", "e", "c", "t", ":">>

\* what the loop asks of a line, computed once for each line of the catalogue
IsUse == [id \in LineIds |-> starts_with(Catalogue[id], UsePrefix)]

IsObject == [id \in LineIds |-> starts_with(Catalogue[id], ObjectPrefix)]

Parsed == [id \in LineIds |-> try_from(Catalogue[id])]

LineBytes == [id \in LineIds |-> Len(Catalogue[id])]

(***************************************************************************)
(* The command line and the file system before the run                     *)
(***************************************************************************)
\* -d / --out-dir: the default
cli_out_dir == <<".">>

\* out_dir with one trailing slash or backslash removed
out_dir ==
    IF Len(cli_out_dir) > 0 /\ cli_out_dir[Len(cli_out_dir)] \in {"/", "\\"}
    THEN SubSeq(cli_out_dir, 1, Len(cli_out_dir) - 1)
    ELSE cli_out_dir

\* the -z arguments tried, and the files that may exist before the run
ZipArgs == {<<"o">>, <<"o", ".", "z", "i", "p">>}

\* what a file that exists before the run holds
OldBytes == <<[src |-> "old", at |-> 0]>>

\* exit statuses: std::process::exit(1), a panic of expect, return from main
ExitFailure == 1

PanicStatus == 101

ExitSuccess == 0

Running == -1

(***************************************************************************)
(* State                                                                   *)
(***************************************************************************)
VARIABLES
    cli_zip,            \* cli.zip: Option of the -z argument
    only_object_names,  \* cli.only_object_names
    existed,            \* the files that exist before the run (never changes)
    fs,                 \* the files: path -> the bytes in the file
    dirs,               \* the directories created
    zip_path,           \* Option of the path of the archive
    zip_writer,         \* Option of the ZipWriter: [writing_to_file, finished, dir]
    consumed,           \* the input lines read so far (ids of the catalogue)
    eof,                \* a read has met the end of the input
    line,               \* the line buffer: positions of the input lines in it
    db_use_statement,   \* the preamble: positions of the input lines in it
    writer,             \* Option of the current BufWriter: [sink, buf]
    new_writer,         \* Option of _writer, the BufWriter of the file being created
    sinks,              \* the files / archive entries created, in order:
                        \* [path, marker (the position of the marker line), data, open]
    pc,                 \* the position in main
    exit_status,        \* the exit status of the process, Running before it ends
    fault               \* what ended the process early ("none": nothing did)

vars == <<cli_zip, only_object_names, existed, fs, dirs, zip_path, zip_writer,
          consumed, eof, line, db_use_statement, writer, new_writer, sinks,
          pc, exit_status, fault>>

cli == <<cli_zip, only_object_names, existed>>

\* everything but pc and exit_status
data == <<cli, fs, dirs, zip_path, zip_writer, consumed, eof, line,
          db_use_statement, writer, new_writer, sinks>>

Init ==
    /\ cli_zip \in {None} \cup {Some(z) : z \in ZipArgs}
    /\ only_object_names \in BOOLEAN
    /\ existed \in SUBSET ZipArgs
    /\ cli_zip = None => existed = {}
    /\ fs = [p \in existed |-> OldBytes]
    /\ dirs = {}
    /\ zip_path = None
    /\ zip_writer = None
    /\ consumed = <<>>
    /\ eof = FALSE
    /\ line = <<>>
    /\ db_use_statement = <<>>
    /\ writer = None
    /\ new_writer = None
    /\ sinks = <<>>
    /\ pc = "zip_path"
    /\ exit_status = Running
    /\ fault = "none"

(***************************************************************************)
(* How the process ends                                                    *)
(***************************************************************************)
\* exit_status and fault
status == <<exit_status, fault>>

\* eprintln! and std::process::exit(1), on the failure f
Exit1(f) ==
    /\ pc' = "exit"
    /\ exit_status' = ExitFailure
    /\ fault' = f
    /\ UNCHANGED data

\* expect on the failure f: the panic ends the process with the status of a
\* panic.  What the destructors write while the panic unwinds is left out:
\* the state after an abnormal end is the state at the failing call.
Panic(f) ==
    /\ pc' = "exit"
    /\ exit_status' = PanicStatus
    /\ fault' = f
    /\ UNCHANGED data


(***************************************************************************)
(* BufWriter and what it writes to                                         *)
(***************************************************************************)
\* the chunks written when the lines at positions ps are written from src
Chunks(src, ps) ==
    IF ps = <<>> THEN <<>>
    ELSE [i \in 1..Len(ps) |-> [src |-> src, at |-> ps[i]]]

\* the number of bytes of a sequence of chunks
RECURSIVE Bytes(_)
Bytes(cs) ==
    IF cs = <<>> THEN 0 ELSE LineBytes[consumed[Head(cs).at]] + Bytes(Tail(cs))

\* BufWriter::write of bytes d with buf buffered: the buffer afterwards and
\* the bytes handed to the inner writer.  Bytes that fit are buffered; else
\* the buffer is written out first when d exceeds the room left, and d goes
\* to the inner writer directly when it is as large as the buffer.  The
\* inner writer takes all the bytes it is handed or fails (see Deliver).
BufWrite(buf, d) ==
    IF Bytes(d) < BufCap - Bytes(buf)
    THEN [buf |-> buf \o d, out |-> <<>>]
    ELSE LET full == Bytes(d) > BufCap - Bytes(buf)
             kept == IF full THEN <<>> ELSE buf
             sent == IF full THEN buf ELSE <<>>
         IN IF Bytes(d) >= BufCap
            THEN [buf |-> kept, out |-> sent \o d]
            ELSE [buf |-> kept \o d, out |-> sent]

\* BufWriter::flush (and the flush of BufWriter::drop): all of buf goes out
BufFlush(buf) == [buf |-> <<>>, out |-> buf]

\* ZipWriter::write refuses bytes while no entry is started; a File takes them
Accepts(w, out) ==
    IF out = <<>> \/ w.sink > 0 THEN TRUE
    ELSE zip_writer[1].writing_to_file

\* the sink that the inner writer of w writes to: the file of w, or the entry
\* the ZipWriter is writing (the last one started) when w.sink = 0
Target(w) == IF w.sink = 0 THEN Len(sinks) ELSE w.sink

\* the sinks and the files once the bytes out have reached the inner writer
SinksAfter(w, out) ==
    IF out = <<>> THEN sinks
    ELSE [sinks EXCEPT ![Target(w)].data = @ \o out]

FsAfter(w, out) ==
    IF out = <<>> \/ w.sink = 0 THEN fs
    ELSE [fs EXCEPT ![sinks[w.sink].path] = @ \o out]

Deliver(w, out) == sinks' = SinksAfter(w, out) /\ fs' = FsAfter(w, out)

\* File::create, were an existing file opened without being truncated
OpenedUntruncated(p) ==
    [q \in DOMAIN fs \cup {p} |-> IF q \in DOMAIN fs THEN fs[q] ELSE <<>>]

\* File::create: the file at path p exists and is empty afterwards
Truncated(p) == [q \in DOMAIN fs \cup {p} |-> IF q = p THEN <<>> ELSE fs[q]]

\* every sink closed
AllClosed(ss) == [i \in 1..Len(ss) |-> [ss[i] EXCEPT !.open = FALSE]]

(***************************************************************************)
(* main, before the loop                                                   *)
(***************************************************************************)
\* Path::exists
Exists(p) == p \in DOMAIN fs \/ p \in dirs

\* the path of the archive for the -z argument zp
ZipPathFor(zp) ==
    IF ~ends_with(zp, <<".", "z", "i", "p">>)
    THEN with_extension(zp, <<"z", "i", "p">>)
    ELSE zp

\* if let Some(zp) = cli.zip: exit when zp exists, else set zip_path
ZipPath ==
    /\ pc = "zip_path"
    /\ IF cli_zip # None /\ Exists(cli_zip[1])
       THEN Exit1("zip target exists")
       ELSE /\ zip_path' = IF cli_zip = None THEN None
                           ELSE Some(ZipPathFor(cli_zip[1]))
            /\ pc' = "reader"
            /\ UNCHANGED <<cli, fs, dirs, zip_writer, consumed, eof, line,
                           db_use_statement, writer, new_writer, sinks,
                           status>>

\* the reader: the input file is missing, or cannot be opened, or is open
\* (standard input is always open)
Reader ==
    /\ pc = "reader"
    /\ \/ Exit1("input file missing")
       \/ Panic("open input")
       \/ pc' = "out_dir" /\ UNCHANGED <<data, status>>

\* create_dir_all(out_dir)
CreateOutDir ==
    /\ pc = "out_dir"
    /\ \/ Panic("create directory")
       \/ /\ dirs' = dirs \cup {out_dir}
          /\ pc' = "zip_writer"
          /\ UNCHANGED <<cli, fs, zip_path, zip_writer, consumed, eof, line,
                         db_use_statement, writer, new_writer, sinks,
                         status>>

\* let zip_writer = ...: File::create(zp) and ZipWriter::new, or None
CreateZipWriter ==
    /\ pc = "zip_writer"
    /\ IF zip_path = None
       THEN pc' = "loop" /\ UNCHANGED <<data, status>>
       ELSE \/ Panic("create file")
            \/ /\ fs' = Truncated(zip_path[1])
               /\ zip_writer' = Some([writing_to_file |-> FALSE,
                                      finished |-> FALSE,
                                      dir |-> None])
               /\ pc' = "add_directory"
               /\ UNCHANGED <<cli, dirs, zip_path, consumed, eof, line,
                              db_use_statement, writer, new_writer, sinks,
                              status>>

\* the root entry of the archive: the stem of the archive's file name
zip_parent_dir == file_stem(zip_path[1])

\* zip_writer.add_directory(zip_parent_dir) and BufWriter::new(zip_writer)
ZipAddDirectory ==
    /\ pc = "add_directory"
    /\ \/ Panic("write")
       \/ /\ zip_writer' = Some([zip_writer[1] EXCEPT
                                    !.dir = Some(zip_parent_dir),
                                    !.writing_to_file = FALSE])
          /\ writer' = Some([sink |-> 0, buf |-> <<>>])
          /\ pc' = "loop"
          /\ UNCHANGED <<cli, fs, dirs, zip_path, consumed, eof, line,
                         db_use_statement, new_writer, sinks, status>>

(***************************************************************************)
(* The parts the two loops share                                           *)
(***************************************************************************)
\* the line read at the head of the iteration
Cur == consumed[line[1]]

\* make_path, were the names-only option and the empty schema not looked at
make_path_with_schema(dir, obj) ==
    dir \o <<"/">> \o obj.schema \o <<".">> \o obj.name \o <<".", "s", "q", "l">>

\* the closure make_path
make_path(dir, obj) ==
    IF only_object_names \/ obj.schema = <<>>
    THEN dir \o <<"/">> \o obj.name \o <<".", "s", "q", "l">>
    ELSE dir \o <<"/">> \o obj.schema \o <<".">> \o obj.name \o <<".", "s", "q", "l">>

\* reader.has_data_left() answers Ok(true): there is a line to read
MoreData == ~eof /\ Len(consumed) < MaxLen

\* ReadLine, were a read allowed to return no line although has_data_left said
\* there is one: the iteration ends without a line consumed
ReadLineOrNothing ==
    /\ pc = "read"
    /\ \/ Exit1("read")
       \/ pc' = "loop" /\ UNCHANGED <<data, status>>
       \/ \E id \in LineIds :
             /\ consumed' = Append(consumed, id)
             /\ line' = Append(line, Len(consumed) + 1)
             /\ pc' = "branch"
             /\ UNCHANGED <<cli, fs, dirs, zip_path, zip_writer, eof,
                            db_use_statement, writer, new_writer, sinks,
                            status>>

\* reader.read_line(&mut line): an error ends the process with status 1;
\* else the next line of the input is appended to line
ReadLine ==
    /\ pc = "read"
    /\ \/ Exit1("read")
       \/ \E id \in LineIds :
             /\ consumed' = Append(consumed, id)
             /\ line' = Append(line, Len(consumed) + 1)
             /\ pc' = "branch"
             /\ UNCHANGED <<cli, fs, dirs, zip_path, zip_writer, eof,
                            db_use_statement, writer, new_writer, sinks,
                            status>>

\* Use, were the line after the "USE " line left to the next iteration
UseOneLine ==
    /\ pc = "branch"
    /\ IsUse[Cur]
    /\ db_use_statement' = line
    /\ pc' = "clear"
    /\ UNCHANGED <<cli, fs, dirs, zip_path, zip_writer, consumed, eof, line,
                   writer, new_writer, sinks, status>>

\* Use, were the preamble not cleared before the two lines are stored
UseKeepsPreamble ==
    /\ pc = "branch"
    /\ IsUse[Cur]
    /\ \/ /\ pc' = "exit"
          /\ exit_status' = PanicStatus
          /\ fault' = "read second line"
          /\ UNCHANGED <<cli, fs, dirs, zip_path, zip_writer, consumed, eof,
                         line, db_use_statement, writer, new_writer, sinks>>
       \/ /\ eof' = TRUE
          /\ db_use_statement' = db_use_statement \o line
          /\ pc' = "clear"
          /\ UNCHANGED <<cli, fs, dirs, zip_path, zip_writer, consumed, line,
                         writer, new_writer, sinks, status>>
       \/ /\ MoreData
          /\ \E id \in LineIds :
                /\ consumed' = Append(consumed, id)
                /\ line' = Append(line, Len(consumed) + 1)
                /\ db_use_statement' = db_use_statement \o line'
          /\ pc' = "clear"
          /\ UNCHANGED <<cli, fs, dirs, zip_path, zip_writer, eof, writer,
                         new_writer, sinks, status>>

\* Use, were the second line looked at: a line that starts with "USE " or with
\* the marker prefix is left to be processed as the next line
UseLooksAtSecondLine ==
    /\ pc = "branch"
    /\ IsUse[Cur]
    /\ \/ /\ db_use_statement' = <<>>
          /\ pc' = "exit"
          /\ exit_status' = PanicStatus
          /\ fault' = "read second line"
          /\ UNCHANGED <<cli, fs, dirs, zip_path, zip_writer, consumed, eof,
                         line, writer, new_writer, sinks>>
       \/ /\ eof' = TRUE
          /\ db_use_statement' = line
          /\ pc' = "clear"
          /\ UNCHANGED <<cli, fs, dirs, zip_path, zip_writer, consumed, line,
                         writer, new_writer, sinks, status>>
       \/ /\ MoreData
          /\ \E id \in LineIds :
                /\ consumed' = Append(consumed, id)
                /\ IF IsUse[id] \/ IsObject[id]
                   THEN /\ line' = <<Len(consumed) + 1>>
                        /\ db_use_statement' = line
                        /\ pc' = "branch"
                   ELSE /\ line' = Append(line, Len(consumed) + 1)
                        /\ db_use_statement' = line'
                        /\ pc' = "clear"
          /\ UNCHANGED <<cli, fs, dirs, zip_path, zip_writer, eof, writer,
                         new_writer, sinks, status>>

\* if line.starts_with("USE "): the preamble is cleared, a second line is read
\* into line after the first (expect panics on a read error; at the end of the
\* input read_line answers Ok(0) and appends nothing), and the preamble becomes
\* what line holds
Use ==
    /\ pc = "branch"
    /\ IsUse[Cur]
    /\ \/ /\ db_use_statement' = <<>>
          /\ pc' = "exit"
          /\ exit_status' = PanicStatus
          /\ fault' = "read second line"
          /\ UNCHANGED <<cli, fs, dirs, zip_path, zip_writer, consumed, eof,
                         line, writer, new_writer, sinks>>
       \/ /\ eof' = TRUE
          /\ db_use_statement' = line
          /\ pc' = "clear"
          /\ UNCHANGED <<cli, fs, dirs, zip_path, zip_writer, consumed, line,
                         writer, new_writer, sinks, status>>
       \/ /\ MoreData
          /\ \E id \in LineIds :
                /\ consumed' = Append(consumed, id)
                /\ line' = Append(line, Len(consumed) + 1)
                /\ db_use_statement' = line'
          /\ pc' = "clear"
          /\ UNCHANGED <<cli, fs, dirs, zip_path, zip_writer, eof, writer,
                         new_writer, sinks, status>>

\* else if line.starts_with("/****** Object:"): the line opens a sink when
\* try_from accepts it, and nothing is done with it otherwise
Object(opening) ==
    /\ pc = "branch"
    /\ ~IsUse[Cur]
    /\ IsObject[Cur]
    /\ pc' = IF Parsed[Cur] # None THEN opening ELSE "clear"
    /\ UNCHANGED <<data, status>>

\* the DatabaseObject of the marker line being processed
Obj == Parsed[Cur][1]

\* w.write(d).expect(..) on the BufWriter w held in writer (current = TRUE) or
\* in new_writer: expect panics when the inner writer fails or refuses
Write(current, d, next) ==
    LET w == IF current THEN writer[1] ELSE new_writer[1]
        r == BufWrite(w.buf, d)
    IN \/ r.out # <<>> /\ Panic("write")
       \/ /\ Accepts(w, r.out)
          /\ Deliver(w, r.out)
          /\ IF current
             THEN writer' = Some([w EXCEPT !.buf = r.buf]) /\ UNCHANGED new_writer
             ELSE new_writer' = Some([w EXCEPT !.buf = r.buf]) /\ UNCHANGED writer
          /\ pc' = next
          /\ UNCHANGED <<cli, dirs, zip_path, zip_writer, consumed, eof, line,
                         db_use_statement, status>>

\* line.clear()
Clear ==
    /\ pc = "clear"
    /\ line' = <<>>
    /\ pc' = "loop"
    /\ UNCHANGED <<cli, fs, dirs, zip_path, zip_writer, consumed, eof,
                   db_use_statement, writer, new_writer, sinks, status>>

(***************************************************************************)
(* The archive loop                                                        *)
(***************************************************************************)
ZipMode == zip_writer # None

\* ZipHasDataLeft, were the archive finished without the BufWriter being
\* flushed into it first
ZipFinishUnflushed ==
    /\ pc = "loop"
    /\ zip_writer # None
    /\ \/ Exit1("read")
       \/ MoreData /\ pc' = "read" /\ UNCHANGED <<data, status>>
       \/ /\ eof' = TRUE
          /\ pc' = "exit"
          /\ \/ /\ exit_status' = PanicStatus
                /\ fault' = "finish archive"
                /\ UNCHANGED <<zip_writer, sinks>>
             \/ /\ sinks' = AllClosed(sinks)
                /\ zip_writer' = Some([zip_writer[1] EXCEPT
                                          !.writing_to_file = FALSE,
                                          !.finished = TRUE])
                /\ exit_status' = ExitSuccess
                /\ UNCHANGED fault
          /\ UNCHANGED <<cli, fs, dirs, zip_path, consumed, line,
                         db_use_statement, writer, new_writer>>

\* match reader.has_data_left(): at the end of the input the BufWriter is
\* flushed into the ZipWriter and the archive is finished
ZipHasDataLeft ==
    /\ pc = "loop"
    /\ ZipMode
    /\ \/ Exit1("read")
       \/ MoreData /\ pc' = "read" /\ UNCHANGED <<data, status>>
       \/ LET w == writer[1]
              r == BufFlush(w.buf)
          IN \/ Panic("flush")
             \/ /\ Accepts(w, r.out)
                /\ eof' = TRUE
                /\ writer' = Some([w EXCEPT !.buf = r.buf])
                /\ pc' = "exit"
                /\ \/ /\ Deliver(w, r.out)
                      /\ exit_status' = PanicStatus
                      /\ fault' = "finish archive"
                      /\ UNCHANGED zip_writer
                   \/ /\ sinks' = AllClosed(SinksAfter(w, r.out))
                      /\ zip_writer' = Some([zip_writer[1] EXCEPT
                                                !.writing_to_file = FALSE,
                                                !.finished = TRUE])
                      /\ exit_status' = ExitSuccess
                      /\ UNCHANGED fault
                      /\ UNCHANGED fs
                /\ UNCHANGED <<cli, dirs, zip_path, consumed, line,
                               db_use_statement, new_writer>>

ZipReadLine == ZipMode /\ ReadLine

ZipUse == ZipMode /\ Use

ZipObject == ZipMode /\ Object("start_file")

\* zw.start_file(path): the entry being written is closed and a new one begins;
\* the BufWriter around the ZipWriter is not touched
ZipStartFile ==
    /\ pc = "start_file"
    /\ ZipMode
    /\ LET dir  == JoinSlash(zip_parent_dir, ObjectTypeDisplay(Obj.object_type))
           path == make_path(dir, Obj)
       IN \/ Panic("create file")
          \/ /\ sinks' = Append(AllClosed(sinks),
                                [path |-> path, marker |-> line[1], data |-> <<>>, open |-> TRUE])
             /\ zip_writer' = Some([zip_writer[1] EXCEPT !.writing_to_file = TRUE])
             /\ pc' = "write_use"
             /\ UNCHANGED <<cli, fs, dirs, zip_path, consumed, eof, line,
                            db_use_statement, writer, new_writer, status>>

ZipWriteUse ==
    /\ pc = "write_use"
    /\ ZipMode
    /\ Write(TRUE, Chunks("use", db_use_statement), "write_line")

ZipWriteLine ==
    /\ pc = "write_line"
    /\ ZipMode
    /\ Write(TRUE, Chunks("line", line), "clear")

\* else: writer.write(line)
ZipContent ==
    /\ pc = "branch"
    /\ ZipMode
    /\ ~IsUse[Cur]
    /\ ~IsObject[Cur]
    /\ Write(TRUE, Chunks("line", line), "clear")

ZipClear == ZipMode /\ Clear

(***************************************************************************)
(* The loose-file loop                                                     *)
(***************************************************************************)
FileMode == zip_writer = None

\* match reader.has_data_left(): at the end of the input the writer, if any,
\* is flushed, and dropped when main returns
FileHasDataLeft ==
    /\ pc = "loop"
    /\ FileMode
    /\ \/ Exit1("read")
       \/ MoreData /\ pc' = "read" /\ UNCHANGED <<data, status>>
       \/ IF writer = None
          THEN /\ eof' = TRUE
               /\ pc' = "exit"
               /\ exit_status' = ExitSuccess
               /\ UNCHANGED fault
               /\ UNCHANGED <<cli, fs, dirs, zip_path, zip_writer, consumed,
                              line, db_use_statement, writer, new_writer, sinks>>
          ELSE LET w == writer[1]
                   r == BufFlush(w.buf)
               IN \/ r.out # <<>> /\ Panic("flush")
                  \/ /\ eof' = TRUE
                     /\ sinks' = AllClosed(SinksAfter(w, r.out))
                     /\ fs' = FsAfter(w, r.out)
                     /\ writer' = None
                     /\ pc' = "exit"
                     /\ exit_status' = ExitSuccess
                     /\ UNCHANGED fault
                     /\ UNCHANGED <<cli, dirs, zip_path, zip_writer, consumed,
                                    line, db_use_statement, new_writer>>

FileReadLine == FileMode /\ ReadLine

FileUse == FileMode /\ Use

FileObject == FileMode /\ Object("create_dir")

\* the directory of the object's kind
FileDir == JoinSlash(out_dir, ObjectTypeDisplay(Obj.object_type))

\* create_dir_all(dir)
FileCreateDir ==
    /\ pc = "create_dir"
    /\ FileMode
    /\ \/ Panic("create directory")
       \/ /\ dirs' = dirs \cup {FileDir}
          /\ pc' = "flush"
          /\ UNCHANGED <<cli, fs, zip_path, zip_writer, consumed, eof, line,
                         db_use_statement, writer, new_writer, sinks,
                         status>>

\* FileFlush, were the previous writer not flushed before the next file is
\* created
FileFlushSkipped ==
    /\ pc = "flush"
    /\ zip_writer = None
    /\ pc' = "create"
    /\ UNCHANGED <<data, status>>

\* if let Some(w) = writer.as_mut() { w.flush() }
FileFlush ==
    /\ pc = "flush"
    /\ FileMode
    /\ IF writer = None
       THEN pc' = "create" /\ UNCHANGED <<data, status>>
       ELSE LET w == writer[1]
                r == BufFlush(w.buf)
            IN \/ r.out # <<>> /\ Panic("flush")
               \/ /\ Deliver(w, r.out)
                  /\ writer' = Some([w EXCEPT !.buf = r.buf])
                  /\ pc' = "create"
                  /\ UNCHANGED <<cli, dirs, zip_path, zip_writer, consumed,
                                 eof, line, db_use_statement, new_writer,
                                 status>>

\* File::create(path) and BufWriter::new(file): the file is created or
\* truncated; the writer of the previous file is still held in writer
FileCreate ==
    /\ pc = "create"
    /\ FileMode
    /\ LET path == make_path(FileDir, Obj)
       IN \/ Panic("create file")
          \/ /\ fs' = Truncated(path)
             /\ sinks' = Append(sinks, [path |-> path, marker |-> line[1], data |-> <<>>, open |-> TRUE])
             /\ new_writer' = Some([sink |-> Len(sinks) + 1, buf |-> <<>>])
             /\ pc' = "write_use"
             /\ UNCHANGED <<cli, dirs, zip_path, zip_writer, consumed, eof,
                            line, db_use_statement, writer, status>>

FileWriteUse ==
    /\ pc = "write_use"
    /\ FileMode
    /\ Write(FALSE, Chunks("use", db_use_statement), "write_line")

FileWriteLine ==
    /\ pc = "write_line"
    /\ FileMode
    /\ Write(FALSE, Chunks("line", line), "assign")

\* writer = Some(_writer): the previous writer is dropped, which writes out
\* what it still buffers (errors ignored) and closes its file
FileAssign ==
    /\ pc = "assign"
    /\ FileMode
    /\ IF writer = None
       THEN UNCHANGED <<sinks, fs>>
       ELSE LET w == writer[1]
                r == BufFlush(w.buf)
            IN /\ sinks' = [SinksAfter(w, r.out) EXCEPT ![w.sink].open = FALSE]
               /\ fs' = FsAfter(w, r.out)
    /\ writer' = new_writer
    /\ new_writer' = None
    /\ pc' = "clear"
    /\ UNCHANGED <<cli, dirs, zip_path, zip_writer, consumed, eof, line,
                   db_use_statement, status>>

\* else: the line goes to the writer if there is one, and nowhere otherwise
FileContent ==
    /\ pc = "branch"
    /\ FileMode
    /\ ~IsUse[Cur]
    /\ ~IsObject[Cur]
    /\ IF writer = None
       THEN pc' = "clear" /\ UNCHANGED <<data, status>>
       ELSE Write(TRUE, Chunks("line", line), "clear")

FileClear == FileMode /\ Clear

(***************************************************************************)
(* The specification                                                       *)
(***************************************************************************)
Next ==
    \/ ZipPath
    \/ Reader
    \/ CreateOutDir
    \/ CreateZipWriter
    \/ ZipAddDirectory
    \/ ZipHasDataLeft
    \/ ZipReadLine
    \/ ZipUse
    \/ ZipObject
    \/ ZipStartFile
    \/ ZipWriteUse
    \/ ZipWriteLine
    \/ ZipContent
    \/ ZipClear
    \/ FileHasDataLeft
    \/ FileReadLine
    \/ FileUse
    \/ FileObject
    \/ FileCreateDir
    \/ FileFlush
    \/ FileCreate
    \/ FileWriteUse
    \/ FileWriteLine
    \/ FileAssign
    \/ FileContent
    \/ FileClear

Spec == Init /\ [][Next]_vars

\* main is one sequential thread over a finite input: while a statement is
\* left to execute, one is executed
FairSpec == Spec /\ WF_vars(Next)

(***************************************************************************)
(* What the input says, read off the lines alone                           *)
(***************************************************************************)
Min(S) == CHOOSE x \in S : \A y \in S : x <= y

\* the elements of a set of numbers, in ascending order
RECURSIVE Ascending(_)
Ascending(S) ==
    IF S = {} THEN <<>> ELSE <<Min(S)>> \o Ascending(S \ {Min(S)})

\* the positions of the lines read at the head of an iteration: the line after
\* a line that starts with "USE " is read within the iteration of that line
RECURSIVE HeadsFrom(_)
HeadsFrom(p) ==
    IF p > Len(consumed) THEN {}
    ELSE {p} \cup HeadsFrom(IF IsUse[consumed[p]] THEN p + 2 ELSE p + 1)

Heads == HeadsFrom(1)

\* the Marker Recognizer succeeds on the line at position p: the prefix, a kind
\* of the closed set and the bracket pattern
Recognized(p) == IsObject[consumed[p]] /\ Parsed[consumed[p]] # None

\* the markers: the recognized lines that are read at the head of an iteration
Markers == {p \in Heads : Recognized(p)}

\* the lines with the marker prefix that the Recognizer rejects
Rejected == {p \in Heads : IsObject[consumed[p]] /\ ~Recognized(p)}

\* the context switches, and the lines that belong to one
Switches == {p \in Heads : IsUse[consumed[p]]}

ContextLines == {p \in 1..Len(consumed) : p \in Switches \/ p - 1 \in Switches}

\* the ordinary lines: neither a context switch nor a line with the marker prefix
Ordinary == {p \in Heads : ~IsUse[consumed[p]] /\ ~IsObject[consumed[p]]}

\* the preamble in effect at position m: the lines of the last context switch
\* before m
PreambleAt(m) ==
    LET before == {h \in Switches : h < m}
    IN IF before = {} THEN <<>>
       ELSE Ascending({p \in {Max(before), Max(before) + 1} : p <= Len(consumed)})

\* the first marker after position m, or the end of the input
NextMarker(m) ==
    LET later == {p \in Markers : p > m}
    IN IF later = {} THEN Len(consumed) + 1 ELSE Min(later)

\* the marker whose sink is current when the line at position p is read, 0 if
\* no sink is open yet
CurrentMarker(p) ==
    LET before == {m \in Markers : m < p}
    IN IF before = {} THEN 0 ELSE Max(before)

\* the text of a sequence of chunks, line by line (ids of the catalogue)
Lines(cs) == [i \in 1..Len(cs) |-> consumed[cs[i].at]]

\* the positions of the input lines that a sequence of chunks holds as lines
\* written from the line buffer, in the order they were written
IsLineChunk(c) == c.src = "line"

LinePositions(cs) ==
    LET ls == SelectSeq(cs, IsLineChunk)
    IN [i \in 1..Len(ls) |-> ls[i].at]

\* the same for all the sinks, in the order the sinks were created
RECURSIVE WrittenUpTo(_)
WrittenUpTo(n) ==
    IF n = 0 THEN <<>>
    ELSE WrittenUpTo(n - 1) \o LinePositions(sinks[n].data)

Written == WrittenUpTo(Len(sinks))

\* the run is over and main has returned
Completed == pc = "exit" /\ exit_status = ExitSuccess

OpenSinks == {i \in 1..Len(sinks) : sinks[i].open}

(***************************************************************************)
(* C1: every sink begins with the preamble in effect when its marker line  *)
(* was read (the last "USE " line and the line after it, or nothing),      *)
(* followed by its marker line.  Stated of the sinks of a completed run,   *)
(* when everything written has reached them.                               *)
(***************************************************************************)
SinkHead(i) ==
    Chunks("use", PreambleAt(sinks[i].marker)) \o Chunks("line", <<sinks[i].marker>>)

C1_SinkBeginsWithPreamble ==
    Completed =>
        \A i \in 1..Len(sinks) :
            /\ Len(sinks[i].data) >= Len(SinkHead(i))
            /\ Lines(SubSeq(sinks[i].data, 1, Len(SinkHead(i)))) = Lines(SinkHead(i))

(***************************************************************************)
(* C2: after a completed run every sink holds exactly its preamble, its    *)
(* marker line and the ordinary lines between its marker and the next      *)
(* marker (or the end of the input), in input order.                       *)
(***************************************************************************)
SinkBody(i) ==
    Ascending({p \in Ordinary : sinks[i].marker < p /\ p < NextMarker(sinks[i].marker)})

C2_SinkHoldsItsObject ==
    Completed =>
        \A i \in 1..Len(sinks) :
            Lines(sinks[i].data) = Lines(SinkHead(i) \o Chunks("line", SinkBody(i)))

(***************************************************************************)
(* C3: a line with the marker prefix that the Recognizer rejects, read     *)
(* while a sink is open, is appended to that sink: after a completed run   *)
(* the sink holds it.                                                      *)
(***************************************************************************)
SinkOfMarker(m) == CHOOSE i \in 1..Len(sinks) : sinks[i].marker = m

C3_RejectedMarkerIsContent ==
    Completed =>
        \A p \in Rejected :
            CurrentMarker(p) # 0 =>
                \E k \in 1..Len(sinks[SinkOfMarker(CurrentMarker(p))].data) :
                    sinks[SinkOfMarker(CurrentMarker(p))].data[k] = [src |-> "line", at |-> p]

(***************************************************************************)
(* C4: a line that is no marker, read while no sink has been opened, is    *)
(* dropped: no sink ever holds it, and no writer keeps it to write it      *)
(* later.                                                                  *)
(***************************************************************************)
Early == {p \in Heads : CurrentMarker(p) = 0 /\ ~Recognized(p) /\ ~IsUse[consumed[p]]}

Holds(cs, p) == \E k \in 1..Len(cs) : cs[k] = [src |-> "line", at |-> p]

C4_EarlyLinesAreDropped ==
    \A p \in Early :
        /\ \A i \in 1..Len(sinks) : ~Holds(sinks[i].data, p)
        /\ pc \in {"loop", "read"} /\ writer # None => ~Holds(writer[1].buf, p)

(***************************************************************************)
(* C5: when a line starting with "USE " is the last line of the input, the *)
(* run does not complete normally.                                         *)
(***************************************************************************)
TrailingUse == consumed # <<>> /\ Len(consumed) \in Switches

C5_TrailingUseIsFatal == pc = "exit" /\ TrailingUse => exit_status # ExitSuccess

(***************************************************************************)
(* C6: lossless content.  After a completed run the lines written to the   *)
(* sinks from the line buffer (the replayed preambles left out), taken     *)
(* sink by sink, are in input order without repetition, and every input    *)
(* line is one of them, or was dropped before the first marker, or is a    *)
(* line of a context switch (kept as the preamble).                        *)
(***************************************************************************)
Increasing(q) == \A i, j \in 1..Len(q) : i < j => q[i] < q[j]

C6_Lossless ==
    Completed =>
        /\ Increasing(Written)
        /\ \A p \in 1..Len(consumed) :
              \/ p \in ContextLines
              \/ CurrentMarker(p) = 0 /\ ~Recognized(p)
              \/ \E k \in 1..Len(Written) : Written[k] = p

(***************************************************************************)
(* C7 as claimed: at every point of a run at most one sink is open.        *)
(***************************************************************************)
C7_AtMostOneOpenSink == pc # "exit" => Cardinality(OpenSinks) <= 1

(***************************************************************************)
(* C7 as amended: at every point of a run at most one sink is open, except *)
(* while the loose-file loop processes a marker: the previous file is      *)
(* flushed before the new file is created, and closed only when the new    *)
(* file has its preamble and marker line, so that two files are open in    *)
(* between, never more.  In archive mode at most one entry is open.  Sinks *)
(* are created in the order of their markers and closed in that order.     *)
(***************************************************************************)
C7_SinkSwitch ==
    pc # "exit" =>
        /\ Cardinality(OpenSinks) <= 2
        /\ \A i \in OpenSinks : i >= Len(sinks) - 1
        /\ \A i, j \in 1..Len(sinks) : i < j => sinks[i].marker < sinks[j].marker
        /\ zip_writer # None => Cardinality(OpenSinks) <= 1
        /\ Cardinality(OpenSinks) = 2 =>
              /\ pc \in {"write_use", "write_line", "assign"}
              /\ writer # None /\ writer[1].sink = Len(sinks) - 1
              /\ writer[1].buf = <<>>
              /\ new_writer # None /\ new_writer[1].sink = Len(sinks)
        /\ pc \in {"loop", "read", "branch", "clear"} /\ zip_writer = None =>
              OpenSinks = IF writer = None THEN {} ELSE {writer[1].sink}

\* two files are open: the new one has its preamble and marker line, the
\* previous one is about to be closed
C7_TwoFilesOpen ==
    /\ pc = "assign"
    /\ Cardinality(OpenSinks) = 2
    /\ sinks[Len(sinks) - 1].data # <<>>

(***************************************************************************)
(* C8 as claimed: the number of sinks created equals the number of input   *)
(* lines on which the Recognizer succeeds, wherever they occur.  Stated    *)
(* between two iterations and after a completed run.                       *)
(***************************************************************************)
C8_SinkPerRecognizedLine ==
    pc = "loop" \/ Completed =>
        Len(sinks) = Cardinality({p \in 1..Len(consumed) : Recognized(p)})

(***************************************************************************)
(* C8 as amended: the number of sinks created equals the number of input   *)
(* lines on which the Recognizer succeeds and that are not the line        *)
(* consumed after a "USE " line; the sinks are those of these lines, in    *)
(* order.                                                                  *)
(***************************************************************************)
C8_SinkPerMarker ==
    pc = "loop" \/ Completed =>
        /\ Len(sinks) = Cardinality(Markers)
        /\ [i \in 1..Len(sinks) |-> sinks[i].marker] = Ascending(Markers)

\* a completed run with a sink, and with a recognizable line that was consumed
\* as the second line of a context switch
C8_MarkerAfterUse ==
    /\ Completed
    /\ sinks # <<>>
    /\ \E p \in 1..Len(consumed) : Recognized(p) /\ p \notin Heads

(***************************************************************************)
(* C9: every fatal error ends the process with exit status 1, and only     *)
(* normal completion ends it with exit status 0.                           *)
(***************************************************************************)
FatalErrors ==
    {"input file missing", "zip target exists", "read", "read second line",
     "write", "flush", "create directory", "create file", "finish archive"}

C9_FatalErrorsExitWithOne ==
    pc = "exit" =>
        /\ fault \in FatalErrors => exit_status = ExitFailure
        /\ exit_status = ExitSuccess <=> fault = "none"

(***************************************************************************)
(* C10: when the path the archive is written at exists before the run,     *)
(* nothing is processed or written, and no file that existed before the    *)
(* run is truncated, replaced or modified.                                 *)
(***************************************************************************)
C10_ExistingArchiveKept ==
    /\ \A p \in existed : p \in DOMAIN fs /\ fs[p] = OldBytes
    /\ cli_zip # None /\ ZipPathFor(cli_zip[1]) \in existed =>
          /\ zip_writer = None
          /\ consumed = <<>>
          /\ sinks = <<>>

(***************************************************************************)
(* C11: the filename policy.  The name of a sink is                        *)
(* <root>/<kind>/<schema>.<name>.sql when the names-only option is off and *)
(* the schema is not empty, and <root>/<kind>/<name>.sql otherwise; the    *)
(* root is the output directory in loose-file mode and the base name of    *)
(* the archive in archive mode.  Stated of every sink created, and of      *)
(* make_path on every kind with and without a schema.                      *)
(***************************************************************************)
\* descriptors of every kind, with an empty and with a non-empty schema
Descriptors == [object_type : ObjectType, schema : {<<>>, <<"s">>}, name : {<<"a">>}]

\* the name the policy gives the sink of the descriptor obj under root
SinkName(root, obj) ==
    root \o <<"/">> \o ObjectTypeDisplay(obj.object_type) \o <<"/">>
         \o (IF ~only_object_names /\ obj.schema # <<>>
             THEN obj.schema \o <<".">> ELSE <<>>)
         \o obj.name \o <<".", "s", "q", "l">>

\* the base name of the archive: the path of the archive without ".zip"
ArchiveBaseName == SubSeq(zip_path[1], 1, Len(zip_path[1]) - 4)

\* the root of the sinks of the run
Root == IF zip_writer # None THEN ArchiveBaseName ELSE out_dir

C11_FilenamePolicy ==
    /\ \A i \in 1..Len(sinks) :
          sinks[i].path = SinkName(Root, Parsed[consumed[sinks[i].marker]][1])
    /\ \A obj \in Descriptors :
          make_path(JoinSlash(out_dir, ObjectTypeDisplay(obj.object_type)), obj)
              = SinkName(out_dir, obj)

\* a completed archive run with the names-only option on and two entries of
\* different names
C11_NamedEntries ==
    /\ Completed
    /\ zip_writer # None
    /\ only_object_names
    /\ Len(sinks) >= 2
    /\ sinks[1].path # sinks[2].path

(***************************************************************************)
(* Marker lines, built from their parts                                    *)
(***************************************************************************)
\* the marker line of a kind token and the bracketed runs S and N
MarkerLine(kind, S, N) ==
    ObjectPrefix \o <<" ", " ">> \o kind \o <<" ", "[">> \o S \o <<"]", ".", "[">> \o N
                 \o <<"]", " ", "*", "*", "*", "*", "*", "*", "/", "\n">>

\* kind tokens: the names of the closed set, case variants, another word
KindTokens ==
    {ObjectTypeDisplay(t) : t \in ObjectType}
        \cup {<<"v", "i", "e", "w">>, <<"T", "A", "B", "L", "E">>, <<"J", "o", "b">>}

\* runs of characters that are not whitespace
Runs ==
    {<<"s">>, <<"a">>, <<"b">>, <<"c">>,
     <<"a", "]", ".", "[", "b">>, <<"b", "]", ".", "[", "c">>}

NoBracket(r) == \A k \in 1..Len(r) : r[k] # "]"

\* what the round trip asks of the Recognizer on MarkerLine(kind, S, N)
RoundTrip(kind, S, N) ==
    IF \E t \in ObjectType : ObjectTypeDisplay(t) = kind
    THEN Some([object_type |-> CHOOSE t \in ObjectType : ObjectTypeDisplay(t) = kind,
               schema      |-> S,
               name        |-> N])
    ELSE None

\* the ways to read line id of the catalogue as MarkerLine(kind, S, N)
Readings(id) ==
    LET parts == {<<kind, S, N>> : kind \in KindTokens, S \in Runs, N \in Runs}
    IN {w \in parts : MarkerLine(w[1], w[2], w[3]) = Catalogue[id]}

\* the same for the lines 1..n of the catalogue, computed once
RECURSIVE ReadingsUpTo(_)
ReadingsUpTo(n) ==
    IF n = 0 THEN <<>> ELSE Append(ReadingsUpTo(n - 1), Readings(n))

WellFormed == ReadingsUpTo(Len(Catalogue))

(***************************************************************************)
(* C12 as claimed: on every line read that is a well-formed marker line of *)
(* a kind token and runs S and N of non-whitespace characters, the         *)
(* Recognizer returns (Kind, S, N) when the token is one of the 14 names,  *)
(* and no match otherwise.                                                 *)
(***************************************************************************)
C12_MarkerRoundTrip ==
    \A p \in 1..Len(consumed) :
        \A w \in WellFormed[consumed[p]] :
            Parsed[consumed[p]] = RoundTrip(w[1], w[2], w[3])

(***************************************************************************)
(* C12 as amended: the round trip holds when neither S nor N holds a "]"   *)
(* (the line then reads in one way only); on every line read, and on the   *)
(* marker lines of every kind token.                                       *)
(***************************************************************************)
RoundTripOfEveryKind ==
    \A kind \in KindTokens :
        \A S \in {r \in Runs : NoBracket(r)} :
            \A N \in {r \in Runs : NoBracket(r)} :
                try_from(MarkerLine(kind, S, N)) = RoundTrip(kind, S, N)

C12_RoundTripWithoutBracket ==
    /\ RoundTripOfEveryKind
    /\ \A p \in 1..Len(consumed) :
          \A w \in WellFormed[consumed[p]] :
              NoBracket(w[2]) /\ NoBracket(w[3]) =>
                  Parsed[consumed[p]] = RoundTrip(w[1], w[2], w[3])

\* a marker line without "]" in its runs has opened a sink, and a marker line
\* with a case variant of a kind was read and opened none
C12_MarkerAndVariantRead ==
    /\ pc = "loop"
    /\ \E p \in Markers :
          /\ \E w \in WellFormed[consumed[p]] : NoBracket(w[2]) /\ NoBracket(w[3])
          /\ \E i \in 1..Len(sinks) : sinks[i].marker = p
    /\ \E q \in Rejected :
          \E w \in WellFormed[consumed[q]] : RoundTrip(w[1], w[2], w[3]) = None

(***************************************************************************)
(* C13: a marker line with a kind of the closed set and a bracketed name   *)
(* without a schema is recognized with an empty schema, and opens the sink *)
(* <root>/<kind>/<name>.sql.  Stated between two iterations and after a    *)
(* completed run, of the lines read at the head of an iteration.           *)
(***************************************************************************)
\* the marker line of a kind token and a bracketed name, without a schema
NoSchemaLine(kind, N) ==
    ObjectPrefix \o <<" ", " ">> \o kind \o <<" ", "[">> \o N
                 \o <<"]", " ", "*", "*", "*", "*", "*", "*", "/", "\n">>

\* the ways to read line id of the catalogue as NoSchemaLine(kind, N), for the
\* kinds of the closed set
NoSchemaReadings(id) ==
    LET parts == {<<t, N>> : t \in ObjectType, N \in {r \in Runs : NoBracket(r)}}
    IN {w \in parts : NoSchemaLine(ObjectTypeDisplay(w[1]), w[2]) = Catalogue[id]}

RECURSIVE NoSchemaUpTo(_)
NoSchemaUpTo(n) ==
    IF n = 0 THEN <<>> ELSE Append(NoSchemaUpTo(n - 1), NoSchemaReadings(n))

NoSchema == NoSchemaUpTo(Len(Catalogue))

C13_SchemaLessMarkerOpensSink ==
    pc = "loop" \/ Completed =>
        \A p \in Heads :
            \A w \in NoSchema[consumed[p]] :
                /\ Parsed[consumed[p]] =
                       Some([object_type |-> w[1], schema |-> <<>>, name |-> w[2]])
                /\ \E i \in 1..Len(sinks) :
                      /\ sinks[i].marker = p
                      /\ sinks[i].path =
                             Root \o <<"/">> \o ObjectTypeDisplay(w[1]) \o <<"/">>
                                  \o w[2] \o <<".", "s", "q", "l">>

(***************************************************************************)
(* C14: processing a context switch (a line starting with "USE " and the   *)
(* line after it) writes nothing: the sinks, the files, the directories    *)
(* and the writers with what they buffer are as before.  The preamble      *)
(* becomes exactly the lines of the context switch (two lines, or the      *)
(* "USE " line alone when the input ends with it), and the line buffer is  *)
(* empty whenever the next line is about to be read.                       *)
(***************************************************************************)
\* a step that carries out the USE branch to its end
UseStep == pc = "branch" /\ IsUse[Cur] /\ pc' = "clear"

C14_ContextSwitchFrame ==
    [][/\ UseStep =>
             /\ sinks' = sinks /\ fs' = fs /\ dirs' = dirs
             /\ writer' = writer /\ new_writer' = new_writer
             /\ zip_writer' = zip_writer
             /\ db_use_statement' = line'
             /\ line' = IF Len(consumed') > Len(consumed)
                        THEN <<Len(consumed), Len(consumed) + 1>>
                        ELSE <<Len(consumed)>>
             /\ Len(line') = 2 \/ eof'
       /\ pc' = "read" => line' = <<>>]_vars

\* a context switch of two lines has been processed while a sink is open and
\* its writer holds bytes not yet written
C14_SwitchWhileSinkOpen ==
    /\ pc = "clear"
    /\ Len(line) = 2
    /\ IsUse[consumed[line[1]]]
    /\ db_use_statement = line
    /\ OpenSinks # {}
    /\ writer # None
    /\ writer[1].buf # <<>>

(***************************************************************************)
(* C15: the line after a line starting with "USE " is consumed as the      *)
(* second line of the preamble whatever it is.  Also when it is a marker   *)
(* line or starts with "USE ": it is never the line at the head of an      *)
(* iteration (so it opens no sink and causes no further read), the         *)
(* preamble written into a new sink is the last "USE " line and this line, *)
(* and what a sink holds of replayed lines are lines of context switches   *)
(* before its marker.                                                      *)
(***************************************************************************)
\* the lines consumed as the second line of a context switch
SecondLines == {p \in 2..Len(consumed) : p - 1 \in Switches}

C15_SecondLineIsPreamble ==
    /\ line # <<>> =>
          /\ line[1] \in Heads
          /\ Len(line) <= 2
          /\ Len(line) = 2 => line[2] \in SecondLines
    /\ \A i \in 1..Len(sinks) : sinks[i].marker \notin SecondLines
    /\ pc = "write_use" => db_use_statement = PreambleAt(line[1])
    /\ pc = "loop" => db_use_statement = PreambleAt(Len(consumed) + 1)
    /\ \A i \in 1..Len(sinks) :
          \A k \in 1..Len(sinks[i].data) :
              sinks[i].data[k].src = "use" =>
                  /\ sinks[i].data[k].at \in ContextLines
                  /\ sinks[i].data[k].at < sinks[i].marker

\* after a completed run a marker line that was the second line of a context
\* switch has opened no sink and is in a later sink as a line of its preamble
C15_MarkerReplayedAsPreamble ==
    /\ Completed
    /\ \E p \in SecondLines :
          /\ Recognized(p)
          /\ \A i \in 1..Len(sinks) : sinks[i].marker # p
          /\ \E i \in 1..Len(sinks) :
                \E k \in 1..Len(sinks[i].data) :
                    sinks[i].data[k] = [src |-> "use", at |-> p]

(***************************************************************************)
(* C16: the pass terminates.  A read at the head of an iteration consumes  *)
(* a line or ends the process, so every iteration consumes at least one    *)
(* line; the process eventually ends, and takes no step after that; when   *)
(* it ends normally the end of the input has been met, every sink is       *)
(* closed and no writer holds a byte not yet written.                      *)
(***************************************************************************)
\* nothing is left open or buffered
AllFlushed ==
    /\ OpenSinks = {}
    /\ new_writer = None
    /\ writer # None => writer[1].buf = <<>>

C16_Terminates ==
    /\ [][/\ pc = "read" => Len(consumed') > Len(consumed) \/ pc' = "exit"
          /\ pc # "exit"]_vars
    /\ [](Completed => eof /\ AllFlushed)
    /\ [](pc = "exit" /\ fault = "none" => Completed)
    /\ <>(pc = "exit")

\* a run has ended normally with a sink that holds what was written to it
C16_CompletedWithSink ==
    /\ Completed
    /\ Len(consumed) >= 3
    /\ sinks # <<>>
    /\ Len(sinks[Len(sinks)].data) >= 2
    /\ AllFlushed

(***************************************************************************)
(* C17: in loose-file mode, when several markers of a run have the same    *)
(* destination path, the last one wins: after a completed run the file     *)
(* holds exactly the preamble, the marker line and the content of the last *)
(* object with that path, and nothing of an earlier one.                   *)
(***************************************************************************)
\* the sinks created at path p
SinksAt(p) == {i \in 1..Len(sinks) : sinks[i].path = p}

C17_LastWriterWins ==
    Completed /\ zip_writer = None =>
        \A i \in 1..Len(sinks) :
            LET last == Max(SinksAt(sinks[i].path))
            IN /\ sinks[i].path \in DOMAIN fs
               /\ fs[sinks[i].path] = SinkHead(last) \o Chunks("line", SinkBody(last))
               /\ fs[sinks[i].path] = sinks[last].data

\* a completed loose-file run in which an object was written, then another
\* object at another path, then an object at the path of the first
C17_PathWrittenTwice ==
    /\ Completed
    /\ zip_writer = None
    /\ \E i, k, j \in 1..Len(sinks) :
          /\ i < k /\ k < j
          /\ sinks[i].path = sinks[j].path
          /\ sinks[k].path # sinks[i].path
          /\ Len(sinks[i].data) >= 2

(***************************************************************************)
(* C18: in archive mode the archive is finished once: by the step that     *)
(* meets the end of the input, after the BufWriter was flushed into the    *)
(* entry being written, and no step follows it (so no entry is started     *)
(* and nothing is finished a second time).  A completed archive run has    *)
(* finished the archive.  Entries are started in the order of their        *)
(* markers, each named under the base name of the archive, which is also   *)
(* the name of the directory entry added first.                            *)
(***************************************************************************)
Finished == zip_writer # None /\ zip_writer[1].finished

RelativeName(path) == SubSeq(path, Len(Root) + 2, Len(path))

\* the name, relative to the root, that the marker at position m stands for
NameOfMarker(m) == RelativeName(SinkName(Root, Parsed[consumed[m]][1]))

DistinctNames ==
    \A m1, m2 \in Markers : m1 # m2 => NameOfMarker(m1) # NameOfMarker(m2)

\* the sinks of the run: names relative to the root, and text
Outcome ==
    [i \in 1..Len(sinks) |->
        <<RelativeName(sinks[i].path), Lines(sinks[i].data)>>]

\* the sinks the input stands for, marker by marker
OutcomeOfInput ==
    LET ms == Ascending(Markers)
    IN [k \in 1..Len(ms) |->
           <<NameOfMarker(ms[k]),
             Lines(Chunks("use", PreambleAt(ms[k])) \o Chunks("line", <<ms[k]>>)
                   \o Chunks("line", Ascending({p \in Ordinary :
                                                   ms[k] < p /\ p < NextMarker(ms[k])})))>>]

C19_ModesAgree == Completed /\ DistinctNames => Outcome = OutcomeOfInput

====
